---- MODULE Spec2Model ----
(***************************************************************************)
(* Model of the Folders manager of box-node-sdk (src/managers/folders.ts). *)
(*                                                                         *)
(* Every public method builds one request {method, path, params} and hands *)
(* it to the HTTP client; three methods (addToCollection,                  *)
(* removeFromCollection, setMetadata) chain a second request in a promise  *)
(* reaction, and getWatermark post-processes the raw response.             *)
(*                                                                         *)
(* JavaScript values are tagged one-field records; an object is the        *)
(* sequence of its own properties in enumeration order, so that key order, *)
(* in-place assignment and `delete` are observable.                        *)
(***************************************************************************)
EXTENDS Naturals, Sequences, FiniteSets

(***************************************************************************)
(* Bounds of the model.                                                    *)
(***************************************************************************)
\* largest number of properties of a caller-supplied options/metadata object
MaxKeys == 2
\* largest number of entries of a fetched `collections` array
MaxCollections == 2

(***************************************************************************)
(* JavaScript values.                                                      *)
(***************************************************************************)
Undefined == [undefined |-> TRUE]
Null == [null |-> TRUE]
Str(s) == [str |-> s]
Num(n) == [num |-> n]
Bool(b) == [bool |-> b]
Fn(f) == [fn |-> f]
Obj(props) == [obj |-> props]
Arr(items) == [arr |-> items]
Prop(key, val) == [k |-> key, v |-> val]

IsObj(x) == DOMAIN x = {"obj"}
IsFn(x) == DOMAIN x = {"fn"}
IsArr(x) == DOMAIN x = {"arr"}

\* ToBoolean: undefined, null, "", 0 and false are falsy, all else truthy
Truthy(x) ==
    CASE x = Undefined -> FALSE
      [] x = Null -> FALSE
      [] DOMAIN x = {"str"} -> x.str # ""
      [] DOMAIN x = {"num"} -> x.num # 0
      [] DOMAIN x = {"bool"} -> x.bool
      [] OTHER -> TRUE

\* a || b
OrElse(a, b) == IF Truthy(a) THEN a ELSE b

\* Object.keys(o)
Keys(o) == [i \in 1..Len(o.obj) |-> o.obj[i].k]
Has(o, key) == \E i \in 1..Len(o.obj) : o.obj[i].k = key
IndexOf(o, key) == CHOOSE i \in 1..Len(o.obj) : o.obj[i].k = key
\* o[key]: a missing property reads as undefined
Get(o, key) == IF Has(o, key) THEN o.obj[IndexOf(o, key)].v ELSE Undefined
\* o[key] = val: an existing property keeps its place, a new one goes last
Put(o, key, val) ==
    IF Has(o, key)
    THEN Obj([o.obj EXCEPT ![IndexOf(o, key)] = Prop(key, val)])
    ELSE Obj(Append(o.obj, Prop(key, val)))
\* delete o[key]
Del(o, key) == Obj(SelectSeq(o.obj, LAMBDA p : p.k # key))

RECURSIVE AssignFrom(_, _, _)
AssignFrom(target, props, i) ==
    IF i > Len(props) THEN target
    ELSE AssignFrom(Put(target, props[i].k, props[i].v), props, i + 1)
\* Object.assign(target, source): null and undefined sources are skipped
ObjectAssign(target, source) ==
    IF IsObj(source) THEN AssignFrom(target, source.obj, 1) ELSE target

\* items.map((c) => ({ id: c.id }))
MapToIds(items) == [i \in 1..Len(items) |-> Obj(<<Prop("id", Get(items[i], "id"))>>)]
\* items.find((c) => c.id === id): the first such item, or undefined
FindById(items, id) ==
    IF \E i \in 1..Len(items) : Get(items[i], "id") = id
    THEN items[CHOOSE i \in 1..Len(items) :
                 /\ Get(items[i], "id") = id
                 /\ \A j \in 1..(i - 1) : Get(items[j], "id") # id]
    ELSE Undefined
\* items.filter((c) => c.id !== id)
FilterOutId(items, id) == SelectSeq(items, LAMBDA c : Get(c, "id") # id)

(***************************************************************************)
(* Paths.                                                                  *)
(***************************************************************************)
BASE_PATH == "/folders"
FOLDER_LOCK == "/folder_locks"
WATERMARK_SUBRESOURCE == "/watermark"

\* a path segment without its leading slash
Trim(seg) ==
    CASE seg = "/folders" -> "folders"
      [] seg = "/folder_locks" -> "folder_locks"
      [] seg = "/watermark" -> "watermark"
      [] seg = "/items" -> "items"
      [] seg = "/collaborations" -> "collaborations"
      [] seg = "/copy" -> "copy"
      [] seg = "/trash" -> "trash"
      [] OTHER -> seg
\* urlPath(...segments): the normalised segments, joined by "/" on the wire
urlPath(segs) == [i \in 1..Len(segs) |-> Trim(segs[i])]

(***************************************************************************)
(* Requests.  A method's synchronous part yields the request it hands to   *)
(* the client, the completion callback it registers, and the state of the  *)
(* caller's options object when it returns (`params.body = options` is an  *)
(* alias, so an in-place change shows in both).                            *)
(***************************************************************************)
\* this.client.wrapWithDefaultHandler(this.client.<method>)(path, params, cb)
Wrapped(method, path, params) ==
    [method |-> method, path |-> path, params |-> params, wrapped |-> TRUE]
\* this.client.<method>(path, params): the raw response reaches the caller
Raw(method, path, params) ==
    [method |-> method, path |-> path, params |-> params, wrapped |-> FALSE]
Issue(req, cb, opts) == [request |-> req, callback |-> cb, options |-> opts]

get(folderID, options, callback) ==
    LET params == Obj(<<Prop("qs", options)>>)
        apiPath == urlPath(<<BASE_PATH, folderID>>)
    IN  Issue(Wrapped("GET", apiPath, params), callback, options)

getItems(folderID, options, callback) ==
    LET params == Obj(<<Prop("qs", options)>>)
        apiPath == urlPath(<<BASE_PATH, folderID, "/items">>)
    IN  Issue(Wrapped("GET", apiPath, params), callback, options)

getCollaborations(folderID, options, callback) ==
    LET params == Obj(<<Prop("qs", options)>>)
        apiPath == urlPath(<<BASE_PATH, folderID, "/collaborations">>)
    IN  Issue(Wrapped("GET", apiPath, params), callback, options)

create(parentFolderID, name, callback) ==
    LET params == Obj(<<Prop("body",
                        Obj(<<Prop("name", Str(name)),
                              Prop("parent", Obj(<<Prop("id", Str(parentFolderID))>>))>>))>>)
    IN  Issue(Wrapped("POST", urlPath(<<BASE_PATH>>), params), callback, Undefined)

\* copy without the argument shuffle: a callable in the options' place is dropped
copy_withoutShuffle(folderID, newParentID, optionsArg, callbackArg) ==
    LET options1 == IF IsObj(optionsArg) THEN optionsArg ELSE Obj(<<>>)
        options2 == Put(options1, "parent", Obj(<<Prop("id", Str(newParentID))>>))
        params == Obj(<<Prop("body", options2)>>)
        apiPath == urlPath(<<BASE_PATH, folderID, "/copy">>)
    IN  Issue(Wrapped("POST", apiPath, params), callbackArg,
              IF IsObj(optionsArg) THEN options2 ELSE optionsArg)

copy(folderID, newParentID, optionsArg, callbackArg) ==
    LET shuffled == IsFn(optionsArg)
        callback == IF shuffled THEN optionsArg ELSE callbackArg
        options0 == IF shuffled THEN Obj(<<>>) ELSE optionsArg
        options1 == OrElse(options0, Obj(<<>>))
        options2 == Put(options1, "parent", Obj(<<Prop("id", Str(newParentID))>>))
        params == Obj(<<Prop("body", options2)>>)
        apiPath == urlPath(<<BASE_PATH, folderID, "/copy">>)
    IN  Issue(Wrapped("POST", apiPath, params), callback,
              IF IsObj(optionsArg) THEN options2 ELSE optionsArg)

\* update without `delete updates.etag`
update_keepsEtag(folderID, updates, callback) ==
    LET conditional == Truthy(updates) /\ Truthy(Get(updates, "etag"))
        headers == Obj(<<Prop("If-Match", Get(updates, "etag"))>>)
        params == IF conditional
                  THEN Obj(<<Prop("body", updates), Prop("headers", headers)>>)
                  ELSE Obj(<<Prop("body", updates)>>)
        apiPath == urlPath(<<BASE_PATH, folderID>>)
    IN  Issue(Wrapped("PUT", apiPath, params), callback, updates)

update(folderID, updates, callback) ==
    LET conditional == Truthy(updates) /\ Truthy(Get(updates, "etag"))
        headers == Obj(<<Prop("If-Match", Get(updates, "etag"))>>)
        updates1 == IF conditional THEN Del(updates, "etag") ELSE updates
        params == IF conditional
                  THEN Obj(<<Prop("body", updates1), Prop("headers", headers)>>)
                  ELSE Obj(<<Prop("body", updates1)>>)
        apiPath == urlPath(<<BASE_PATH, folderID>>)
    IN  Issue(Wrapped("PUT", apiPath, params), callback, updates1)

move(folderID, newParentID, callback) ==
    LET params == Obj(<<Prop("body",
                        Obj(<<Prop("parent", Obj(<<Prop("id", Str(newParentID))>>))>>))>>)
        apiPath == urlPath(<<BASE_PATH, folderID>>)
    IN  Issue(Wrapped("PUT", apiPath, params), callback, Undefined)

delete(folderID, options, callback) ==
    LET conditional == Truthy(options) /\ Truthy(Get(options, "etag"))
        headers == Obj(<<Prop("If-Match", Get(options, "etag"))>>)
        options1 == IF conditional THEN Del(options, "etag") ELSE options
        params == IF conditional
                  THEN Obj(<<Prop("qs", options1), Prop("headers", headers)>>)
                  ELSE Obj(<<Prop("qs", options1)>>)
        apiPath == urlPath(<<BASE_PATH, folderID>>)
    IN  Issue(Wrapped("DELETE", apiPath, params), callback, options1)

getAllMetadata(folderID, callback) ==
    LET apiPath == urlPath(<<BASE_PATH, folderID, "metadata">>)
    IN  Issue(Wrapped("GET", apiPath, Null), callback, Undefined)

getMetadata(folderID, scope, template, callback) ==
    LET apiPath == urlPath(<<BASE_PATH, folderID, "metadata", scope, template>>)
    IN  Issue(Wrapped("GET", apiPath, Null), callback, Undefined)

addMetadata(folderID, scope, template, data, callback) ==
    LET apiPath == urlPath(<<BASE_PATH, folderID, "metadata", scope, template>>)
        params == Obj(<<Prop("body", data)>>)
    IN  Issue(Wrapped("POST", apiPath, params), callback, data)

updateMetadata(folderID, scope, template, patch, callback) ==
    LET apiPath == urlPath(<<BASE_PATH, folderID, "metadata", scope, template>>)
        params == Obj(<<Prop("body", patch),
                        Prop("headers",
                             Obj(<<Prop("Content-Type",
                                        Str("application/json-patch+json"))>>))>>)
    IN  Issue(Wrapped("PUT", apiPath, params), callback, patch)

deleteMetadata(folderID, scope, template, callback) ==
    LET apiPath == urlPath(<<BASE_PATH, folderID, "metadata", scope, template>>)
    IN  Issue(Wrapped("DELETE", apiPath, Null), callback, Undefined)

getTrashedFolder(folderID, options, callback) ==
    LET params == Obj(<<Prop("qs", options)>>)
        apiPath == urlPath(<<BASE_PATH, folderID, "trash">>)
    IN  Issue(Wrapped("GET", apiPath, params), callback, options)

\* restoreFromTrash building the body from a copy of the options
restoreFromTrash_onCopy(folderID, options, callback) ==
    LET rename == Truthy(options) /\ Truthy(Get(options, "parent_id"))
        options1 == IF rename
                    THEN Del(Put(options, "parent",
                                 Obj(<<Prop("id", Get(options, "parent_id"))>>)),
                             "parent_id")
                    ELSE options
        apiPath == urlPath(<<BASE_PATH, folderID>>)
        params == Obj(<<Prop("body", OrElse(options1, Obj(<<>>)))>>)
    IN  Issue(Wrapped("POST", apiPath, params), callback, options)

\* restoreFromTrash without `delete options.parent_id`
restoreFromTrash_keepsParentId(folderID, options, callback) ==
    LET rename == Truthy(options) /\ Truthy(Get(options, "parent_id"))
        options1 == IF rename
                    THEN Put(options, "parent",
                             Obj(<<Prop("id", Get(options, "parent_id"))>>))
                    ELSE options
        apiPath == urlPath(<<BASE_PATH, folderID>>)
        params == Obj(<<Prop("body", OrElse(options1, Obj(<<>>)))>>)
    IN  Issue(Wrapped("POST", apiPath, params), callback, options1)

restoreFromTrash(folderID, options, callback) ==
    LET rename == Truthy(options) /\ Truthy(Get(options, "parent_id"))
        options1 == IF rename
                    THEN Del(Put(options, "parent",
                                 Obj(<<Prop("id", Get(options, "parent_id"))>>)),
                             "parent_id")
                    ELSE options
        apiPath == urlPath(<<BASE_PATH, folderID>>)
        params == Obj(<<Prop("body", OrElse(options1, Obj(<<>>)))>>)
    IN  Issue(Wrapped("POST", apiPath, params), callback, options1)

\* deletePermanently handling its options the way delete does
deletePermanently_likeDelete(folderID, optionsArg, callbackArg) ==
    LET shuffled == IsFn(optionsArg)
        callback == IF shuffled THEN optionsArg ELSE callbackArg
        options == IF shuffled THEN Obj(<<>>) ELSE optionsArg
        conditional == Truthy(options) /\ Truthy(Get(options, "etag"))
        options1 == IF conditional THEN Del(options, "etag") ELSE options
        params == IF conditional
                  THEN Obj(<<Prop("qs", options1),
                             Prop("headers",
                                  Obj(<<Prop("If-Match", Get(options, "etag"))>>))>>)
                  ELSE Obj(<<Prop("qs", options1)>>)
        apiPath == urlPath(<<BASE_PATH, folderID, "/trash">>)
    IN  Issue(Wrapped("DELETE", apiPath, params), callback,
              IF shuffled THEN optionsArg ELSE options1)

deletePermanently(folderID, optionsArg, callbackArg) ==
    LET shuffled == IsFn(optionsArg)
        callback == IF shuffled THEN optionsArg ELSE callbackArg
        options == IF shuffled THEN Obj(<<>>) ELSE optionsArg
        conditional == Truthy(options) /\ Truthy(Get(options, "etag"))
        params == IF conditional
                  THEN Obj(<<Prop("headers",
                                  Obj(<<Prop("If-Match", Get(options, "etag"))>>))>>)
                  ELSE Obj(<<>>)
        apiPath == urlPath(<<BASE_PATH, folderID, "/trash">>)
    IN  Issue(Wrapped("DELETE", apiPath, params), callback, optionsArg)

getWatermark(folderID, options, callback) ==
    LET apiPath == urlPath(<<BASE_PATH, folderID, WATERMARK_SUBRESOURCE>>)
        params == Obj(<<Prop("qs", options)>>)
    IN  Issue(Raw("GET", apiPath, params), callback, options)

\* applyWatermark with the default laid over the options
applyWatermark_defaultWins(folderID, options, callback) ==
    LET apiPath == urlPath(<<BASE_PATH, folderID, WATERMARK_SUBRESOURCE>>)
        watermark == ObjectAssign(IF IsObj(options) THEN options ELSE Obj(<<>>),
                                  Obj(<<Prop("imprint", Str("default"))>>))
        params == Obj(<<Prop("body", Obj(<<Prop("watermark", watermark)>>))>>)
    IN  Issue(Wrapped("PUT", apiPath, params), callback, options)

applyWatermark(folderID, options, callback) ==
    LET apiPath == urlPath(<<BASE_PATH, folderID, WATERMARK_SUBRESOURCE>>)
        watermark == ObjectAssign(Obj(<<Prop("imprint", Str("default"))>>), options)
        params == Obj(<<Prop("body", Obj(<<Prop("watermark", watermark)>>))>>)
    IN  Issue(Wrapped("PUT", apiPath, params), callback, options)

removeWatermark(folderID, callback) ==
    LET apiPath == urlPath(<<BASE_PATH, folderID, WATERMARK_SUBRESOURCE>>)
    IN  Issue(Wrapped("DELETE", apiPath, Null), callback, Undefined)

lock(folderID, callback) ==
    LET params ==
          Obj(<<Prop("body",
                Obj(<<Prop("folder", Obj(<<Prop("type", Str("folder")),
                                            Prop("id", Str(folderID))>>)),
                      Prop("locked_operations",
                           Obj(<<Prop("move", Bool(TRUE)),
                                 Prop("delete", Bool(TRUE))>>))>>))>>)
    IN  Issue(Wrapped("POST", urlPath(<<FOLDER_LOCK>>), params), callback, Undefined)

getLocks(folderID, callback) ==
    LET params == Obj(<<Prop("qs", Obj(<<Prop("folder_id", Str(folderID))>>))>>)
    IN  Issue(Wrapped("GET", urlPath(<<FOLDER_LOCK>>), params), callback, Undefined)

deleteLock(folderLockID, callback) ==
    LET apiPath == urlPath(<<FOLDER_LOCK, folderLockID>>)
    IN  Issue(Wrapped("DELETE", apiPath, Null), callback, Undefined)


(***************************************************************************)
(* Promise reactions of the composite methods.                             *)
(***************************************************************************)
\* errors.buildUnexpectedResponseError(response)
buildUnexpectedResponseError(response) ==
    Obj(<<Prop("name", Str("UnexpectedResponseError")), Prop("response", response)>>)

Fulfilled(val) == [state |-> "fulfilled", value |-> val]
Rejected(err) == [state |-> "rejected", value |-> err]
Pending == [state |-> "pending", value |-> Undefined]

\* addToCollection pushing the target without looking for it
addToCollectionList_alwaysPush(data, collectionID) ==
    LET collections0 == OrElse(Get(data, "collections"), Arr(<<>>)).arr
        collections1 == MapToIds(collections0)
    IN  Append(collections1, Obj(<<Prop("id", Str(collectionID))>>))

\* addToCollection sending the target alone, whatever was fetched
addToCollectionList_targetOnly(data, collectionID) ==
    <<Obj(<<Prop("id", Str(collectionID))>>)>>

\* the `.then` of addToCollection: the collections sent to update
addToCollectionList(data, collectionID) ==
    LET collections0 == OrElse(Get(data, "collections"), Arr(<<>>)).arr
        collections1 == MapToIds(collections0)
        found == FindById(collections1, Str(collectionID))
    IN  IF ~Truthy(found)
        THEN Append(collections1, Obj(<<Prop("id", Str(collectionID))>>))
        ELSE collections1

\* removeFromCollection filtering the entries as fetched, without the map
removeFromCollectionList_unmapped(data, collectionID) ==
    LET collections0 == OrElse(Get(data, "collections"), Arr(<<>>)).arr
    IN  FilterOutId(collections0, Str(collectionID))

\* the `.then` of removeFromCollection: the collections sent to update
removeFromCollectionList(data, collectionID) ==
    LET collections0 == OrElse(Get(data, "collections"), Arr(<<>>)).arr
    IN  FilterOutId(MapToIds(collections0), Str(collectionID))

\* the `.catch` of setMetadata with the test inverted
setMetadataRetries_inverted(err) == Get(err, "statusCode") # Num(409)

\* the `.catch` of setMetadata: does the error lead to the update?
setMetadataRetries(err) == ~(Get(err, "statusCode") # Num(409))
\* the `.catch` of setMetadata: the JSON-Patch operations sent to updateMetadata
setMetadataUpdates(metadata) ==
    LET keys == Keys(metadata)
    IN  [i \in 1..Len(keys) |->
            Obj(<<Prop("op", Str("add")),
                  Prop("path", Str("/" \o keys[i])),
                  Prop("value", Get(metadata, keys[i]))>>)]

\* the `.then` of getWatermark without the statusCode check
getWatermarkResult_unchecked(response) ==
    Fulfilled(Get(Get(response, "body"), "watermark"))

\* the `.then` of getWatermark: what the operation settles with
getWatermarkResult(response) ==
    IF Get(response, "statusCode") # Num(200)
    THEN Rejected(buildUnexpectedResponseError(response))
    ELSE Fulfilled(Get(Get(response, "body"), "watermark"))


(***************************************************************************)
(* The composite methods' synchronous parts: the first request goes out    *)
(* without a callback, and `.asCallback(callback)` ends the chain.         *)
(***************************************************************************)
addToCollection(folderID, collectionID, callback) ==
    Issue(get(folderID, Obj(<<Prop("fields", Str("collections"))>>), Undefined).request,
          callback, Undefined)

removeFromCollection(folderID, collectionID, callback) ==
    Issue(get(folderID, Obj(<<Prop("fields", Str("collections"))>>), Undefined).request,
          callback, Undefined)

setMetadata(folderID, scope, template, metadata, callback) ==
    Issue(addMetadata(folderID, scope, template, metadata, Undefined).request,
          callback, metadata)

(***************************************************************************)
(* Inputs: the arguments callers pass and the settlements of the client.   *)
(***************************************************************************)
FolderIDs == {"0", "11"}
ParentIDs == {"0", "22"}
CollectionIDs == {"1", "2"}
Names == {"docs"}
Scopes == {"global"}
Templates == {"properties"}
LockIDs == {"77"}
Callbacks == {Undefined, Fn("done")}
\* a callback passed in the place of the options
LegacyCallbacks == {Fn("legacy")}

OptionKeys == {"etag", "parent_id", "parent", "name", "imprint"}
MetadataKeys == {"a", "b", "c"}
ValuesFor(key) ==
    CASE key = "etag" -> {Str(""), Str("e1")}
      [] key = "parent_id" -> {Str(""), Str("5")}
      [] key = "parent" -> {Obj(<<Prop("id", Str("9"))>>)}
      [] key = "name" -> {Str("x")}
      [] key = "imprint" -> {Str("custom")}
      [] OTHER -> {Str("1"), Str("2")}

\* the objects with at most MaxKeys distinct keys of K, in every key order
KeySeqs(K) ==
    {ks \in UNION {[1..n -> K] : n \in 0..MaxKeys} :
        \A i, j \in 1..Len(ks) : i # j => ks[i] # ks[j]}
AllValues(K) == UNION {ValuesFor(key) : key \in K}
Bags(K) ==
    UNION {{Obj([i \in 1..Len(ks) |-> Prop(ks[i], vs[i])]) :
              vs \in {w \in [1..Len(ks) -> AllValues(K)] :
                        \A i \in 1..Len(ks) : w[i] \in ValuesFor(ks[i])}} :
           ks \in KeySeqs(K)}
\* an optional options argument: omitted, null or an object
Options == {Undefined, Null} \cup Bags(OptionKeys)
Metadata == Bags(MetadataKeys)

\* entries of a folder's `collections` field, as the API returns them
CollectionEntries ==
    {Obj(<<Prop("id", Str(id))>>) : id \in CollectionIDs}
    \cup {Obj(<<Prop("name", Str("Favorites")), Prop("id", Str(id))>>) : id \in CollectionIDs}
CollectionLists == UNION {[1..n -> CollectionEntries] : n \in 0..MaxCollections}
\* bodies of a successful GET /folders/{id}?fields=collections
FolderData ==
    {Obj(<<Prop("id", Str("11")), Prop("collections", Arr(l))>>) : l \in CollectionLists}
    \cup {Obj(<<Prop("id", Str("11"))>>),
          Obj(<<Prop("id", Str("11")), Prop("collections", Null)>>)}

\* what the remote side may hold for a folder: the ids of its collections
RemoteLists ==
    {l \in UNION {[1..n -> CollectionIDs] : n \in 0..MaxCollections} :
        \A i, j \in 1..Len(l) : i # j => l[i] # l[j]}

\* errors a client call rejects with: API errors carry statusCode, others do not
Errors ==
    {Obj(<<Prop("statusCode", Num(code))>>) : code \in {404, 409, 500}}
    \cup {Obj(<<Prop("code", Str("ECONNRESET"))>>)}
\* raw responses of this.client.get
RawResponses ==
    {Obj(<<Prop("statusCode", Num(code)), Prop("body", body)>>) :
        code \in {200, 202, 404},
        body \in {Obj(<<Prop("watermark", Obj(<<Prop("imprint", Str("default"))>>))>>),
                  Obj(<<Prop("type", Str("error"))>>)}}
Bodies == {Obj(<<Prop("id", Str("11"))>>), Undefined}

(***************************************************************************)
(* State: one record of fields per call site.                              *)
(***************************************************************************)
Callers == {1, 2}

VARIABLES
    pc,             \* idle, awaiting (request in flight), settled, done
    op,             \* the method called
    args,           \* the arguments as the caller passed them
    callerOptions,  \* the caller's options object as the method left it
    callback,       \* the completion callback the method registered
    requests,       \* the requests handed to the client, with their settlement
    outcome,        \* the settlement of the promise the method returned
    cbCalls,        \* the invocations of the completion callback
    remote          \* the remote side: each folder's collections, the requests served

vars == <<pc, op, args, callerOptions, callback, requests, outcome, cbCalls, remote>>

Args(folderID, other, scope, template, options, cb) ==
    [folderID |-> folderID, other |-> other, scope |-> scope, template |-> template,
     options |-> options, callback |-> cb]
NoArgs == Args("", "", "", "", Undefined, Undefined)

Sent(req) == [request |-> req, response |-> Pending]
Last(c) == requests[c][Len(requests[c])]

Remote(lists) == [collections |-> lists, log |-> <<>>]

Init ==
    /\ pc = [c \in Callers |-> "idle"]
    /\ op = [c \in Callers |-> "none"]
    /\ args = [c \in Callers |-> NoArgs]
    /\ callerOptions = [c \in Callers |-> Undefined]
    /\ callback = [c \in Callers |-> Undefined]
    /\ requests = [c \in Callers |-> <<>>]
    /\ outcome = [c \in Callers |-> Pending]
    /\ cbCalls = [c \in Callers |-> <<>>]
    /\ remote = Remote([f \in FolderIDs |-> <<>>])

\* a method is called: its synchronous part runs and hands a request to the client
Start(c, name, a, built) ==
    /\ pc' = [pc EXCEPT ![c] = "awaiting"]
    /\ op' = [op EXCEPT ![c] = name]
    /\ args' = [args EXCEPT ![c] = a]
    /\ callerOptions' = [callerOptions EXCEPT ![c] = built.options]
    /\ callback' = [callback EXCEPT ![c] = built.callback]
    /\ requests' = [requests EXCEPT ![c] = <<Sent(built.request)>>]
    /\ UNCHANGED <<outcome, cbCalls, remote>>

\* a promise reaction hands a further request to the client
Chain(c, built) ==
    /\ pc' = [pc EXCEPT ![c] = "awaiting"]
    /\ requests' = [requests EXCEPT ![c] = Append(@, Sent(built.request))]
    /\ UNCHANGED <<op, args, callerOptions, callback, outcome, cbCalls, remote>>

\* callback(err) or callback(null, value), when a callback was registered
Delivery(cb, result) ==
    IF IsFn(cb)
    THEN <<[fn |-> cb,
            err |-> IF result.state = "rejected" THEN result.value ELSE Null,
            value |-> IF result.state = "rejected" THEN Undefined ELSE result.value]>>
    ELSE <<>>

\* the returned promise settles and the completion callback is told
Finish(c, result) ==
    /\ pc' = [pc EXCEPT ![c] = "done"]
    /\ outcome' = [outcome EXCEPT ![c] = result]
    /\ cbCalls' = [cbCalls EXCEPT ![c] = Delivery(callback[c], result)]
    /\ UNCHANGED <<op, args, callerOptions, callback, requests, remote>>


(***************************************************************************)
(* Actions: a call of each method.                                         *)
(***************************************************************************)
Call_get(c) ==
    /\ pc[c] = "idle"
    /\ \E f \in FolderIDs, o \in Options, cb \in Callbacks :
           Start(c, "get", Args(f, "", "", "", o, cb), get(f, o, cb))

Call_getItems(c) ==
    /\ pc[c] = "idle"
    /\ \E f \in FolderIDs, o \in Options, cb \in Callbacks :
           Start(c, "getItems", Args(f, "", "", "", o, cb), getItems(f, o, cb))

Call_getCollaborations(c) ==
    /\ pc[c] = "idle"
    /\ \E f \in FolderIDs, o \in Options, cb \in Callbacks :
           Start(c, "getCollaborations", Args(f, "", "", "", o, cb), getCollaborations(f, o, cb))

Call_getTrashedFolder(c) ==
    /\ pc[c] = "idle"
    /\ \E f \in FolderIDs, o \in Options, cb \in Callbacks :
           Start(c, "getTrashedFolder", Args(f, "", "", "", o, cb), getTrashedFolder(f, o, cb))

Call_getWatermark(c) ==
    /\ pc[c] = "idle"
    /\ \E f \in FolderIDs, o \in Options, cb \in Callbacks :
           Start(c, "getWatermark", Args(f, "", "", "", o, cb), getWatermark(f, o, cb))

Call_applyWatermark(c) ==
    /\ pc[c] = "idle"
    /\ \E f \in FolderIDs, o \in Options, cb \in Callbacks :
           Start(c, "applyWatermark", Args(f, "", "", "", o, cb), applyWatermark(f, o, cb))

Call_update(c) ==
    /\ pc[c] = "idle"
    /\ \E f \in FolderIDs, o \in Options, cb \in Callbacks :
           Start(c, "update", Args(f, "", "", "", o, cb), update(f, o, cb))

Call_delete(c) ==
    /\ pc[c] = "idle"
    /\ \E f \in FolderIDs, o \in Options, cb \in Callbacks :
           Start(c, "delete", Args(f, "", "", "", o, cb), delete(f, o, cb))

Call_restoreFromTrash(c) ==
    /\ pc[c] = "idle"
    /\ \E f \in FolderIDs, o \in Options, cb \in Callbacks :
           Start(c, "restoreFromTrash", Args(f, "", "", "", o, cb), restoreFromTrash(f, o, cb))

Call_copy(c) ==
    /\ pc[c] = "idle"
    /\ \E f \in FolderIDs, p \in ParentIDs, o \in Options \cup LegacyCallbacks, cb \in Callbacks :
           Start(c, "copy", Args(f, p, "", "", o, cb), copy(f, p, o, cb))

Call_deletePermanently(c) ==
    /\ pc[c] = "idle"
    /\ \E f \in FolderIDs, o \in Options \cup LegacyCallbacks, cb \in Callbacks :
           Start(c, "deletePermanently", Args(f, "", "", "", o, cb),
                 deletePermanently(f, o, cb))

Call_create(c) ==
    /\ pc[c] = "idle"
    /\ \E f \in FolderIDs, n \in Names, cb \in Callbacks :
           Start(c, "create", Args(f, n, "", "", Undefined, cb), create(f, n, cb))

Call_move(c) ==
    /\ pc[c] = "idle"
    /\ \E f \in FolderIDs, p \in ParentIDs, cb \in Callbacks :
           Start(c, "move", Args(f, p, "", "", Undefined, cb), move(f, p, cb))

Call_addToCollection(c) ==
    /\ pc[c] = "idle"
    /\ \E f \in FolderIDs, id \in CollectionIDs, cb \in Callbacks :
           Start(c, "addToCollection", Args(f, id, "", "", Undefined, cb),
                 addToCollection(f, id, cb))

Call_removeFromCollection(c) ==
    /\ pc[c] = "idle"
    /\ \E f \in FolderIDs, id \in CollectionIDs, cb \in Callbacks :
           Start(c, "removeFromCollection", Args(f, id, "", "", Undefined, cb),
                 removeFromCollection(f, id, cb))

Call_getAllMetadata(c) ==
    /\ pc[c] = "idle"
    /\ \E f \in FolderIDs, cb \in Callbacks :
           Start(c, "getAllMetadata", Args(f, "", "", "", Undefined, cb),
                 getAllMetadata(f, cb))

Call_getMetadata(c) ==
    /\ pc[c] = "idle"
    /\ \E f \in FolderIDs, sc \in Scopes, t \in Templates, cb \in Callbacks :
           Start(c, "getMetadata", Args(f, "", sc, t, Undefined, cb),
                 getMetadata(f, sc, t, cb))

Call_addMetadata(c) ==
    /\ pc[c] = "idle"
    /\ \E f \in FolderIDs, sc \in Scopes, t \in Templates, m \in Metadata, cb \in Callbacks :
           Start(c, "addMetadata", Args(f, "", sc, t, m, cb), addMetadata(f, sc, t, m, cb))

Call_updateMetadata(c) ==
    /\ pc[c] = "idle"
    /\ \E f \in FolderIDs, sc \in Scopes, t \in Templates, m \in Metadata, cb \in Callbacks :
           LET patch == Arr(setMetadataUpdates(m))
           IN  Start(c, "updateMetadata", Args(f, "", sc, t, patch, cb),
                     updateMetadata(f, sc, t, patch, cb))

Call_setMetadata(c) ==
    /\ pc[c] = "idle"
    /\ \E f \in FolderIDs, sc \in Scopes, t \in Templates, m \in Metadata, cb \in Callbacks :
           Start(c, "setMetadata", Args(f, "", sc, t, m, cb), setMetadata(f, sc, t, m, cb))

Call_deleteMetadata(c) ==
    /\ pc[c] = "idle"
    /\ \E f \in FolderIDs, sc \in Scopes, t \in Templates, cb \in Callbacks :
           Start(c, "deleteMetadata", Args(f, "", sc, t, Undefined, cb),
                 deleteMetadata(f, sc, t, cb))

Call_removeWatermark(c) ==
    /\ pc[c] = "idle"
    /\ \E f \in FolderIDs, cb \in Callbacks :
           Start(c, "removeWatermark", Args(f, "", "", "", Undefined, cb),
                 removeWatermark(f, cb))

Call_lock(c) ==
    /\ pc[c] = "idle"
    /\ \E f \in FolderIDs, cb \in Callbacks :
           Start(c, "lock", Args(f, "", "", "", Undefined, cb), lock(f, cb))

Call_getLocks(c) ==
    /\ pc[c] = "idle"
    /\ \E f \in FolderIDs, cb \in Callbacks :
           Start(c, "getLocks", Args(f, "", "", "", Undefined, cb), getLocks(f, cb))

Call_deleteLock(c) ==
    /\ pc[c] = "idle"
    /\ \E l \in LockIDs, cb \in Callbacks :
           Start(c, "deleteLock", Args(l, "", "", "", Undefined, cb), deleteLock(l, cb))

(***************************************************************************)
(* Actions: the client settles a request; the promise reactions run.       *)
(***************************************************************************)
\* what the client may settle the request in flight with
Settlements(c) ==
    LET ok == IF ~Last(c).request.wrapped THEN RawResponses
              ELSE IF op[c] \in {"addToCollection", "removeFromCollection"}
                      /\ Len(requests[c]) = 1
                   THEN FolderData
                   ELSE Bodies
    IN  {Fulfilled(b) : b \in ok} \cup {Rejected(e) : e \in Errors}

Respond(c) ==
    /\ pc[c] = "awaiting"
    /\ \E r \in Settlements(c) :
          requests' = [requests EXCEPT ![c][Len(requests[c])].response = r]
    /\ pc' = [pc EXCEPT ![c] = "settled"]
    /\ UNCHANGED <<op, args, callerOptions, callback, outcome, cbCalls, remote>>

\* addToCollection going on with an empty list when the GET was rejected
addToCollection_then_recovering(c) ==
    /\ pc[c] = "settled"
    /\ op[c] = "addToCollection"
    /\ Len(requests[c]) = 1
    /\ LET data == IF Last(c).response.state = "fulfilled"
                   THEN Last(c).response.value
                   ELSE Obj(<<Prop("collections", Arr(<<>>))>>)
           collections == addToCollectionList(data, args[c].other)
       IN  Chain(c, update(args[c].folderID,
                           Obj(<<Prop("collections", Arr(collections))>>), Undefined))

addToCollection_then(c) ==
    /\ pc[c] = "settled"
    /\ op[c] = "addToCollection"
    /\ Len(requests[c]) = 1
    /\ Last(c).response.state = "fulfilled"
    /\ LET collections == addToCollectionList(Last(c).response.value, args[c].other)
       IN  Chain(c, update(args[c].folderID,
                           Obj(<<Prop("collections", Arr(collections))>>), Undefined))

removeFromCollection_then(c) ==
    /\ pc[c] = "settled"
    /\ op[c] = "removeFromCollection"
    /\ Len(requests[c]) = 1
    /\ Last(c).response.state = "fulfilled"
    /\ LET collections == removeFromCollectionList(Last(c).response.value, args[c].other)
       IN  Chain(c, update(args[c].folderID,
                           Obj(<<Prop("collections", Arr(collections))>>), Undefined))

\* the `.catch` of setMetadata reacting to the update's rejection as well
setMetadata_catch_again(c) ==
    /\ pc[c] = "settled"
    /\ op[c] = "setMetadata"
    /\ Last(c).response.state = "rejected"
    /\ IF setMetadataRetries(Last(c).response.value)
       THEN Chain(c, updateMetadata(args[c].folderID, args[c].scope, args[c].template,
                                    Arr(setMetadataUpdates(args[c].options)), Undefined))
       ELSE Finish(c, Rejected(Last(c).response.value))

setMetadata_catch(c) ==
    /\ pc[c] = "settled"
    /\ op[c] = "setMetadata"
    /\ Len(requests[c]) = 1
    /\ Last(c).response.state = "rejected"
    /\ IF setMetadataRetries(Last(c).response.value)
       THEN Chain(c, updateMetadata(args[c].folderID, args[c].scope, args[c].template,
                                    Arr(setMetadataUpdates(args[c].options)), Undefined))
       ELSE Finish(c, Rejected(Last(c).response.value))

getWatermark_then(c) ==
    /\ pc[c] = "settled"
    /\ op[c] = "getWatermark"
    /\ Last(c).response.state = "fulfilled"
    /\ Finish(c, getWatermarkResult(Last(c).response.value))

\* does a reaction of the method handle the settlement at hand?
Handled(c) ==
    \/ /\ op[c] \in {"addToCollection", "removeFromCollection"}
       /\ Len(requests[c]) = 1
       /\ Last(c).response.state = "fulfilled"
    \/ /\ op[c] = "setMetadata"
       /\ Len(requests[c]) = 1
       /\ Last(c).response.state = "rejected"
    \/ /\ op[c] = "getWatermark"
       /\ Last(c).response.state = "fulfilled"

\* the returned promise taking the settlement of the call's first request
Settle_firstSettlement(c) ==
    /\ pc[c] = "settled"
    /\ ~Handled(c)
    /\ Finish(c, requests[c][1].response)

\* no reaction applies: the returned promise takes the request's settlement
Settle(c) ==
    /\ pc[c] = "settled"
    /\ ~Handled(c)
    /\ Finish(c, Last(c).response)

Step(c) ==
    \/ Call_get(c)
    \/ Call_getItems(c)
    \/ Call_getCollaborations(c)
    \/ Call_create(c)
    \/ Call_copy(c)
    \/ Call_update(c)
    \/ Call_addToCollection(c)
    \/ Call_removeFromCollection(c)
    \/ Call_move(c)
    \/ Call_delete(c)
    \/ Call_getAllMetadata(c)
    \/ Call_getMetadata(c)
    \/ Call_addMetadata(c)
    \/ Call_updateMetadata(c)
    \/ Call_setMetadata(c)
    \/ Call_deleteMetadata(c)
    \/ Call_getTrashedFolder(c)
    \/ Call_restoreFromTrash(c)
    \/ Call_deletePermanently(c)
    \/ Call_getWatermark(c)
    \/ Call_applyWatermark(c)
    \/ Call_removeWatermark(c)
    \/ Call_lock(c)
    \/ Call_getLocks(c)
    \/ Call_deleteLock(c)
    \/ Respond(c)
    \/ addToCollection_then(c)
    \/ removeFromCollection_then(c)
    \/ setMetadata_catch(c)
    \/ getWatermark_then(c)
    \/ Settle(c)

\* one call site: calls are independent, the manager keeps no state between them
Next == Step(1)

Spec == Init /\ [][Next]_vars

\* a call of setMetadata on its own, where the client settles every request it
\* was handed and the event loop runs every promise reaction that is ready
SetMetadataNext ==
    \/ Call_setMetadata(1)
    \/ Respond(1)
    \/ setMetadata_catch(1)
    \/ Settle(1)

SetMetadataProgress ==
    \/ Respond(1)
    \/ setMetadata_catch(1)
    \/ Settle(1)

SetMetadataSpec ==
    Init /\ [][SetMetadataNext]_vars /\ WF_vars(SetMetadataProgress)

(***************************************************************************)
(* Two call sites adding one folder to collections against a remote side   *)
(* that keeps the folder's collections.                                    *)
(***************************************************************************)
\* the folder a request is about
FolderOf(req) == CHOOSE f \in FolderIDs : req.path = urlPath(<<BASE_PATH, f>>)
\* the folder object the remote side answers with
FolderObject(f, ids) ==
    Obj(<<Prop("id", Str(f)),
          Prop("collections",
               Arr([i \in 1..Len(ids) |->
                      Obj(<<Prop("type", Str("collection")), Prop("id", Str(ids[i]))>>)]))>>)
\* the collection ids a PUT asks the folder to be in
RequestedIds(req) ==
    LET entries == Get(Get(req.params, "body"), "collections").arr
    IN  [i \in 1..Len(entries) |-> Get(entries[i], "id").str]
Served(c, req) == [caller |-> c, method |-> req.method]

\* the remote side serves the request in flight: a GET reads the folder's
\* collections, a PUT replaces them; or the request fails and changes nothing
ServerRespond(c) ==
    /\ pc[c] = "awaiting"
    /\ LET req == Last(c).request
           f == FolderOf(req)
       IN  \/ /\ req.method = "GET"
              /\ requests' = [requests EXCEPT ![c][Len(requests[c])].response =
                                 Fulfilled(FolderObject(f, remote.collections[f]))]
              /\ remote' = [remote EXCEPT !.log = Append(@, Served(c, req))]
           \/ /\ req.method = "PUT"
              /\ requests' = [requests EXCEPT ![c][Len(requests[c])].response =
                                 Fulfilled(FolderObject(f, RequestedIds(req)))]
              /\ remote' = [remote EXCEPT !.collections[f] = RequestedIds(req),
                                          !.log = Append(@, Served(c, req))]
           \/ /\ \E e \in Errors :
                    requests' = [requests EXCEPT ![c][Len(requests[c])].response =
                                    Rejected(e)]
              /\ UNCHANGED remote
    /\ pc' = [pc EXCEPT ![c] = "settled"]
    /\ UNCHANGED <<op, args, callerOptions, callback, outcome, cbCalls>>

ConcInit ==
    /\ pc = [c \in Callers |-> "idle"]
    /\ op = [c \in Callers |-> "none"]
    /\ args = [c \in Callers |-> NoArgs]
    /\ callerOptions = [c \in Callers |-> Undefined]
    /\ callback = [c \in Callers |-> Undefined]
    /\ requests = [c \in Callers |-> <<>>]
    /\ outcome = [c \in Callers |-> Pending]
    /\ cbCalls = [c \in Callers |-> <<>>]
    /\ \E lists \in [FolderIDs -> RemoteLists] : remote = Remote(lists)

ConcStep(c) ==
    \/ Call_addToCollection(c)
    \/ ServerRespond(c)
    \/ addToCollection_then(c)
    \/ Settle(c)

\* the call sites run interleaved: each step belongs to one of them
ConcNext == \E c \in Callers : ConcStep(c)

ConcSpec == ConcInit /\ [][ConcNext]_vars


(***************************************************************************)
(* Properties.                                                             *)
(***************************************************************************)
Request(c, i) == requests[c][i].request
Response(c, i) == requests[c][i].response
Body(req) == Get(req.params, "body")
Query(req) == Get(req.params, "qs")
Headers(req) == Get(req.params, "headers")
\* the reaction to the first settlement has run
Reacted(c) == pc[c] = "done" \/ Len(requests[c]) > 1

\* C1: setMetadata.  When the initial addMetadata POST is fulfilled there is no
\* second request and its result is the outcome; when it is rejected with
\* statusCode 409 there is exactly one follow-up, a PUT to the same
\* metadata/{scope}/{template} path whose body lists {op: "add", path: "/" + key,
\* value: metadata[key]} for the keys of the metadata in their order; when it is
\* rejected otherwise there is no follow-up and the error is the outcome.
C1_SetMetadataFallback ==
    \A c \in Callers : op[c] = "setMetadata" =>
        LET m == args[c].options
            first == Request(c, 1)
            settled == Response(c, 1)
            conflict == /\ settled.state = "rejected"
                        /\ Has(settled.value, "statusCode")
                        /\ Get(settled.value, "statusCode") = Num(409)
            patch == [i \in 1..Len(m.obj) |->
                        Obj(<<Prop("op", Str("add")),
                              Prop("path", Str("/" \o m.obj[i].k)),
                              Prop("value", m.obj[i].v)>>)]
        IN  /\ first.method = "POST"
            /\ first.path = <<"folders", args[c].folderID, "metadata",
                              args[c].scope, args[c].template>>
            /\ Body(first) = m
            /\ Len(requests[c]) <= 2
            /\ settled.state = "fulfilled" =>
                  /\ Len(requests[c]) = 1
                  /\ pc[c] = "done" => outcome[c] = settled
            /\ (conflict /\ Reacted(c)) =>
                  /\ Len(requests[c]) = 2
                  /\ Request(c, 2).method = "PUT"
                  /\ Request(c, 2).path = first.path
                  /\ Body(Request(c, 2)) = Arr(patch)
            /\ (settled.state = "rejected" /\ ~conflict) =>
                  /\ Len(requests[c]) = 1
                  /\ pc[c] = "done" => outcome[c] = settled

\* the add met a 409 and the update of a two-key metadata {b, a} went out
C1_Witness ==
    \E c \in Callers :
        /\ op[c] = "setMetadata"
        /\ Keys(args[c].options) = <<"b", "a">>
        /\ Len(requests[c]) = 2
        /\ Get(Response(c, 1).value, "statusCode") = Num(409)
        /\ pc[c] = "done"

\* C2 (as amended): update and delete send one request.  When etag is present in
\* the updates/options with a non-empty value, the request carries If-Match equal
\* to it and the forwarded body (update) or query (delete) is the argument without
\* its etag; when etag is absent or empty, the request carries no headers and the
\* body/query is the argument unchanged.
C2_EtagBecomesIfMatch ==
    \A c \in Callers : op[c] \in {"update", "delete"} =>
        LET o == args[c].options
            req == Request(c, 1)
            forwarded == IF op[c] = "update" THEN Body(req) ELSE Query(req)
            conditional == IsObj(o) /\ Has(o, "etag") /\ Get(o, "etag") # Str("")
        IN  /\ Len(requests[c]) = 1
            /\ req.method = (IF op[c] = "update" THEN "PUT" ELSE "DELETE")
            /\ req.path = <<"folders", args[c].folderID>>
            /\ conditional =>
                  /\ Headers(req) = Obj(<<Prop("If-Match", Get(o, "etag"))>>)
                  /\ ~Has(forwarded, "etag")
                  /\ forwarded.obj = SelectSeq(o.obj, LAMBDA p : p.k # "etag")
            /\ ~conditional =>
                  /\ ~Has(req.params, "headers")
                  /\ forwarded = o

\* C2 as stated: a present etag, whatever its value, becomes If-Match and leaves
\* the body/query
C2_AsStated ==
    \A c \in Callers : op[c] \in {"update", "delete"} =>
        LET o == args[c].options
            req == Request(c, 1)
            forwarded == IF op[c] = "update" THEN Body(req) ELSE Query(req)
        IN  (IsObj(o) /\ Has(o, "etag")) =>
                /\ Has(req.params, "headers")
                /\ Get(Headers(req), "If-Match") = Get(o, "etag")
                /\ ~Has(forwarded, "etag")

\* an update whose etag "e1" went into If-Match, the name staying in the body
C2_Witness ==
    \E c \in Callers :
        /\ op[c] = "update"
        /\ args[c].options = Obj(<<Prop("etag", Str("e1")), Prop("name", Str("x"))>>)
        /\ Headers(Request(c, 1)) = Obj(<<Prop("If-Match", Str("e1"))>>)
        /\ Body(Request(c, 1)) = Obj(<<Prop("name", Str("x"))>>)

\* C3: getWatermark.  A raw response with statusCode 200 fulfils the operation
\* with the watermark field of its body alone; any other statusCode rejects it
\* with the unexpected-response error built from the response; the raw response
\* is never the value it settles with.
C3_GetWatermark ==
    \A c \in Callers :
        (op[c] = "getWatermark" /\ pc[c] = "done"
            /\ Response(c, 1).state = "fulfilled") =>
            LET response == Response(c, 1).value
            IN  /\ outcome[c].value # response
                /\ Get(response, "statusCode") = Num(200) =>
                      /\ outcome[c].state = "fulfilled"
                      /\ outcome[c].value = Get(Get(response, "body"), "watermark")
                      /\ outcome[c].value # Get(response, "body")
                /\ Get(response, "statusCode") # Num(200) =>
                      /\ outcome[c].state = "rejected"
                      /\ Get(outcome[c].value, "name") = Str("UnexpectedResponseError")
                      /\ Get(outcome[c].value, "response") = response

\* a 202 response that carried a watermark was turned into the error
C3_Witness ==
    \E c \in Callers :
        /\ op[c] = "getWatermark"
        /\ pc[c] = "done"
        /\ Response(c, 1).state = "fulfilled"
        /\ Get(Response(c, 1).value, "statusCode") = Num(202)
        /\ Has(Get(Response(c, 1).value, "body"), "watermark")
        /\ outcome[c].state = "rejected"


\* the entries of the `collections` field a GET was fulfilled with
Fetched(data) ==
    IF Has(data, "collections") /\ IsArr(Get(data, "collections"))
    THEN Get(data, "collections").arr
    ELSE <<>>
\* the GET both collection methods start with
IsCollectionsRead(req, folderID) ==
    /\ req.method = "GET"
    /\ req.path = <<"folders", folderID>>
    /\ Query(req) = Obj(<<Prop("fields", Str("collections"))>>)

\* C4: addToCollection.  After the GET with fields=collections is fulfilled, the
\* update's collections are the fetched ones as {id}-only entries in their order,
\* followed by {id: collectionID} if and only if no fetched entry has that id.
C4_AddToCollection ==
    \A c \in Callers : (op[c] = "addToCollection" /\ Len(requests[c]) >= 1) =>
        /\ IsCollectionsRead(Request(c, 1), args[c].folderID)
        /\ (Response(c, 1).state = "fulfilled" /\ Reacted(c)) =>
              LET fetched == Fetched(Response(c, 1).value)
                  n == Len(fetched)
                  target == Str(args[c].other)
                  present == \E i \in 1..n : Get(fetched[i], "id") = target
                  expected ==
                      [i \in 1..(IF present THEN n ELSE n + 1) |->
                          IF i <= n THEN Obj(<<Prop("id", Get(fetched[i], "id"))>>)
                                    ELSE Obj(<<Prop("id", target)>>)]
              IN  /\ Len(requests[c]) = 2
                  /\ Request(c, 2).method = "PUT"
                  /\ Request(c, 2).path = <<"folders", args[c].folderID>>
                  /\ Body(Request(c, 2)) = Obj(<<Prop("collections", Arr(expected))>>)

\* the folder was in collection 2 only (listed with its name), and was added to 1
C4_Witness ==
    \E c \in Callers :
        /\ op[c] = "addToCollection"
        /\ args[c].other = "1"
        /\ Len(requests[c]) = 2
        /\ Fetched(Response(c, 1).value)
             = <<Obj(<<Prop("name", Str("Favorites")), Prop("id", Str("2"))>>)>>
        /\ Get(Body(Request(c, 2)), "collections")
             = Arr(<<Obj(<<Prop("id", Str("2"))>>), Obj(<<Prop("id", Str("1"))>>)>>)

C6_CopyLegacyCallback ==
    \A c \in Callers : op[c] = "copy" =>
        LET a == args[c]
            req == Request(c, 1)
            explicit == copy(a.folderID, a.other, Obj(<<>>), a.options)
        IN  /\ Len(requests[c]) = 1
            /\ req.method = "POST"
            /\ req.path = <<"folders", a.folderID, "copy">>
            /\ IsObj(Body(req))
            /\ Get(Body(req), "parent") = Obj(<<Prop("id", Str(a.other))>>)
            /\ Cardinality({i \in 1..Len(Body(req).obj) :
                              Body(req).obj[i].k = "parent"}) = 1
            /\ IsFn(a.options) =>
                  /\ req = explicit.request
                  /\ callback[c] = a.options
                  /\ callback[c] = explicit.callback
                  /\ pc[c] = "done" =>
                        /\ Len(cbCalls[c]) = 1
                        /\ cbCalls[c][1].fn = a.options
                        /\ outcome[c].state = "rejected" =>
                              cbCalls[c][1].err = outcome[c].value
                        /\ outcome[c].state = "fulfilled" =>
                              /\ cbCalls[c][1].err = Null
                              /\ cbCalls[c][1].value = outcome[c].value

\* copy(id, parent, f) completed and told f
C6_Witness ==
    \E c \in Callers :
        /\ op[c] = "copy"
        /\ IsFn(args[c].options)
        /\ args[c].callback = Undefined
        /\ pc[c] = "done"
        /\ Len(cbCalls[c]) = 1


\* C7 (as amended): deletePermanently.  A callable options argument becomes the
\* callback and the options count as empty; the DELETE to /folders/{id}/trash
\* carries If-Match equal to options.etag exactly when the options hold a
\* non-empty etag, and nothing else: no query, no body; the caller's options
\* object keeps its etag.
C7_DeletePermanently ==
    \A c \in Callers : op[c] = "deletePermanently" =>
        LET a == args[c]
            req == Request(c, 1)
            legacy == IsFn(a.options)
            conditional == /\ IsObj(a.options)
                           /\ Has(a.options, "etag")
                           /\ Get(a.options, "etag") # Str("")
        IN  /\ Len(requests[c]) = 1
            /\ req.method = "DELETE"
            /\ req.path = <<"folders", a.folderID, "trash">>
            /\ callback[c] = (IF legacy THEN a.options ELSE a.callback)
            /\ ~Has(req.params, "qs")
            /\ ~Has(req.params, "body")
            /\ conditional <=> Has(req.params, "headers")
            /\ conditional =>
                  Headers(req) = Obj(<<Prop("If-Match", Get(a.options, "etag"))>>)
            /\ callerOptions[c] = a.options

\* C7 as stated: If-Match is sent exactly when the options hold an etag
C7_AsStated ==
    \A c \in Callers : op[c] = "deletePermanently" =>
        LET present == IsObj(args[c].options) /\ Has(args[c].options, "etag")
        IN  present <=> (/\ Has(Request(c, 1).params, "headers")
                         /\ Has(Headers(Request(c, 1)), "If-Match"))

\* a conditional permanent delete: the header went out, the etag stayed
C7_Witness ==
    \E c \in Callers :
        /\ op[c] = "deletePermanently"
        /\ Has(Request(c, 1).params, "headers")
        /\ Get(Headers(Request(c, 1)), "If-Match") = Str("e1")
        /\ Get(callerOptions[c], "etag") = Str("e1")
        /\ Len(callerOptions[c].obj) = 2

\* C8 (as amended): restoreFromTrash.  When the options hold a non-empty
\* parent_id, the body of the POST to /folders/{id} has parent {id: that value},
\* has no parent_id, and has every other option as given; when they hold none
\* (or an empty one) the body is the options as given; when the options are
\* omitted the body is the empty object.
C8_RestoreFromTrash ==
    \A c \in Callers : op[c] = "restoreFromTrash" =>
        LET o == args[c].options
            req == Request(c, 1)
            body == Body(req)
            rename == IsObj(o) /\ Has(o, "parent_id") /\ Get(o, "parent_id") # Str("")
        IN  /\ Len(requests[c]) = 1
            /\ req.method = "POST"
            /\ req.path = <<"folders", args[c].folderID>>
            /\ rename =>
                  /\ Get(body, "parent") = Obj(<<Prop("id", Get(o, "parent_id"))>>)
                  /\ ~Has(body, "parent_id")
                  /\ {body.obj[i].k : i \in 1..Len(body.obj)}
                       = ({o.obj[i].k : i \in 1..Len(o.obj)} \ {"parent_id"})
                           \cup {"parent"}
                  /\ Len(body.obj) = Cardinality({body.obj[i].k : i \in 1..Len(body.obj)})
                  /\ \A i \in 1..Len(o.obj) :
                        o.obj[i].k \notin {"parent_id", "parent"} =>
                            Get(body, o.obj[i].k) = o.obj[i].v
            /\ (IsObj(o) /\ ~rename) => body = o
            /\ ~IsObj(o) => body = Obj(<<>>)

\* C8 as stated: whenever the options hold a parent_id it is renamed
C8_AsStated ==
    \A c \in Callers : op[c] = "restoreFromTrash" =>
        LET o == args[c].options
            body == Body(Request(c, 1))
        IN  (IsObj(o) /\ Has(o, "parent_id")) =>
                /\ Get(body, "parent") = Obj(<<Prop("id", Get(o, "parent_id"))>>)
                /\ ~Has(body, "parent_id")

\* the example of the specification: {parent_id: "5", name: "x"}
C8_Witness ==
    \E c \in Callers :
        /\ op[c] = "restoreFromTrash"
        /\ args[c].options = Obj(<<Prop("parent_id", Str("5")), Prop("name", Str("x"))>>)
        /\ Get(Body(Request(c, 1)), "parent") = Obj(<<Prop("id", Str("5"))>>)
        /\ Get(Body(Request(c, 1)), "name") = Str("x")

\* C9: applyWatermark.  The PUT body is {watermark: W}, W being {imprint:
\* "default"} overlaid with the options: W has the keys of the options and
\* imprint, every key of the options with the caller's value, and imprint
\* "default" unless the caller gave one; without options W is {imprint: "default"}.
C9_ApplyWatermark ==
    \A c \in Callers : op[c] = "applyWatermark" =>
        LET o == args[c].options
            req == Request(c, 1)
            W == Get(Body(req), "watermark")
        IN  /\ Len(requests[c]) = 1
            /\ req.method = "PUT"
            /\ req.path = <<"folders", args[c].folderID, "watermark">>
            /\ Keys(Body(req)) = <<"watermark">>
            /\ IsObj(o) =>
                  /\ {W.obj[i].k : i \in 1..Len(W.obj)}
                       = {o.obj[i].k : i \in 1..Len(o.obj)} \cup {"imprint"}
                  /\ Len(W.obj) = Cardinality({W.obj[i].k : i \in 1..Len(W.obj)})
                  /\ \A i \in 1..Len(o.obj) : Get(W, o.obj[i].k) = o.obj[i].v
                  /\ ~Has(o, "imprint") => Get(W, "imprint") = Str("default")
            /\ (~IsObj(o) \/ o = Obj(<<>>)) =>
                  W = Obj(<<Prop("imprint", Str("default"))>>)

\* the caller's imprint replaced the default, next to another option
C9_Witness ==
    \E c \in Callers :
        /\ op[c] = "applyWatermark"
        /\ IsObj(args[c].options)
        /\ Keys(args[c].options) = <<"name", "imprint">>
        /\ Get(Get(Body(Request(c, 1)), "watermark"), "imprint") = Str("custom")

\* C10: a call of addToCollection, removeFromCollection or setMetadata hands at
\* most two requests to the client, any other method at most one; the second is
\* handed over only once the first has settled (fulfilled for the collection
\* methods' read, rejected for setMetadata's add), so at most one is in flight.
Composite == {"addToCollection", "removeFromCollection", "setMetadata"}
C10_SequentialRequests ==
    \A c \in Callers :
        /\ Len(requests[c]) <= (IF op[c] \in Composite THEN 2 ELSE 1)
        /\ \A i \in 1..Len(requests[c]) :
              i < Len(requests[c]) => Response(c, i).state # "pending"
        /\ Cardinality({i \in 1..Len(requests[c]) : Response(c, i).state = "pending"})
             = (IF pc[c] = "awaiting" THEN 1 ELSE 0)
        /\ Len(requests[c]) = 2 =>
              Response(c, 1).state
                = (IF op[c] = "setMetadata" THEN "rejected" ELSE "fulfilled")
        /\ (pc[c] # "idle" /\ pc[c] # "done") => Len(requests[c]) >= 1

\* a composite method's second request is in flight, its first one settled
C10_Witness ==
    \E c \in Callers :
        /\ op[c] = "addToCollection"
        /\ Len(requests[c]) = 2
        /\ Response(c, 1).state = "fulfilled"
        /\ Response(c, 2).state = "pending"


\* the properties of an object other than the named ones, in their order
Others(o, names) == SelectSeq(o.obj, LAMBDA p : p.k \notin names)

\* C11 (as amended): the caller's options object is changed in place by copy
\* (parent becomes {id: newParentID}), by update and delete (a non-empty etag is
\* removed) and by restoreFromTrash (a non-empty parent_id is replaced by parent
\* {id: that value}), and by nothing else: every other method, deletePermanently
\* included, and these four in every other case leave the object as it was passed.
C11_CallerObjectMutation ==
    \A c \in Callers : op[c] # "none" =>
        LET o == args[c].options
            after == callerOptions[c]
            strips == /\ op[c] \in {"update", "delete"}
                      /\ IsObj(o) /\ Has(o, "etag") /\ Get(o, "etag") # Str("")
            injects == op[c] = "copy" /\ IsObj(o)
            renames == /\ op[c] = "restoreFromTrash"
                       /\ IsObj(o) /\ Has(o, "parent_id") /\ Get(o, "parent_id") # Str("")
        IN  /\ strips =>
                  /\ ~Has(after, "etag")
                  /\ after.obj = Others(o, {"etag"})
            /\ injects =>
                  /\ Get(after, "parent") = Obj(<<Prop("id", Str(args[c].other))>>)
                  /\ Others(after, {"parent"}) = Others(o, {"parent"})
            /\ renames =>
                  /\ Get(after, "parent") = Obj(<<Prop("id", Get(o, "parent_id"))>>)
                  /\ ~Has(after, "parent_id")
                  /\ Others(after, {"parent"}) = Others(o, {"parent", "parent_id"})
            /\ ~(strips \/ injects \/ renames) => after = o

\* C11 as stated: only copy, delete and deletePermanently change the object
C11_AsStated ==
    \A c \in Callers :
        op[c] \notin {"none", "copy", "delete", "deletePermanently"} =>
            callerOptions[c] = args[c].options

\* restoreFromTrash has returned and its caller's {parent_id, name} now reads
\* {name, parent}
C11_Witness ==
    \E c \in Callers :
        /\ op[c] = "restoreFromTrash"
        /\ pc[c] = "done"
        /\ args[c].options = Obj(<<Prop("parent_id", Str("5")), Prop("name", Str("x"))>>)
        /\ callerOptions[c] = Obj(<<Prop("name", Str("x")),
                                    Prop("parent", Obj(<<Prop("id", Str("5"))>>))>>)


\* C12: no method but setMetadata recovers from an error.  A request whose
\* promise is rejected is the last request of its call (after a rejected GET of
\* addToCollection or removeFromCollection no PUT follows), and once the call
\* is over its outcome is that very rejection, which is also the error the
\* callback is told.
C12_NoRecovery ==
    \A c \in Callers : op[c] \notin {"none", "setMetadata"} =>
        \A i \in 1..Len(requests[c]) :
            Response(c, i).state = "rejected" =>
                /\ i = Len(requests[c])
                /\ pc[c] # "awaiting"
                /\ pc[c] = "done" =>
                      /\ outcome[c] = Response(c, i)
                      /\ IsFn(callback[c]) =>
                            cbCalls[c] = <<[fn |-> callback[c],
                                            err |-> Response(c, i).value,
                                            value |-> Undefined]>>

\* the GET of an addToCollection with a callback was rejected with status 500:
\* the call is over with that error and the GET is its only request
C12_Witness ==
    \E c \in Callers :
        /\ op[c] = "addToCollection"
        /\ pc[c] = "done"
        /\ Len(requests[c]) = 1
        /\ Request(c, 1).method = "GET"
        /\ Response(c, 1).state = "rejected"
        /\ Get(Response(c, 1).value, "statusCode") = Num(500)
        /\ outcome[c] = Response(c, 1)
        /\ Len(cbCalls[c]) = 1
        /\ cbCalls[c][1].err = Response(c, 1).value


\* C13: setMetadata hands the client at most two requests, the second one only
\* after a 409 on the first; when there is a second request the outcome is its
\* settlement, a failure (another 409 included) as well as a success; and every
\* call of setMetadata ends with an outcome.
C13_SetMetadataTerminates ==
    /\ [](\A c \in Callers : op[c] = "setMetadata" =>
            /\ Len(requests[c]) <= 2
            /\ Len(requests[c]) = 2 =>
                  /\ Response(c, 1).state = "rejected"
                  /\ Get(Response(c, 1).value, "statusCode") = Num(409)
                  /\ Request(c, 2).method = "PUT"
                  /\ pc[c] = "done" => outcome[c] = Response(c, 2))
    /\ \A c \in Callers :
          (op[c] = "setMetadata") ~> (pc[c] = "done" /\ outcome[c] # Pending)

\* the PUT made after a 409 was itself rejected with a 409, and that is the outcome
C13_Witness ==
    \E c \in Callers :
        /\ op[c] = "setMetadata"
        /\ pc[c] = "done"
        /\ Len(requests[c]) = 2
        /\ Response(c, 2).state = "rejected"
        /\ Get(Response(c, 2).value, "statusCode") = Num(409)
        /\ outcome[c] = Response(c, 2)


Range(seq) == {seq[i] : i \in 1..Len(seq)}
\* when the remote side served the GET or the PUT of a call
ServedAt(c, method) ==
    CHOOSE i \in 1..Len(remote.log) : remote.log[i] = [caller |-> c, method |-> method]
\* two additions to one folder, of different collections, both fulfilled
BothAdded ==
    /\ \A c \in Callers :
          /\ op[c] = "addToCollection"
          /\ pc[c] = "done"
          /\ outcome[c].state = "fulfilled"
    /\ args[1].folderID = args[2].folderID
    /\ args[1].other # args[2].other

\* C14 (as amended): after two successful concurrent additions to one folder the
\* folder's collections are those of the update the remote side applied last.
\* They hold that call's collection; they hold the other call's collection when
\* the last-applied call read the folder after the other's update was applied,
\* and otherwise only if the collection was in what that call read.
C14_LastUpdateWins ==
    BothAdded =>
        LET final == remote.collections[args[1].folderID]
            last == remote.log[Len(remote.log)].caller
            other == CHOOSE o \in Callers : o # last
            readLate == ServedAt(last, "GET") > ServedAt(other, "PUT")
            read == Fetched(Response(last, 1).value)
        IN  /\ remote.log[Len(remote.log)].method = "PUT"
            /\ final = RequestedIds(Request(last, 2))
            /\ args[last].other \in Range(final)
            /\ readLate => args[other].other \in Range(final)
            /\ ~readLate =>
                  (args[other].other \in Range(final)
                     <=> \E i \in 1..Len(read) : Get(read[i], "id") = Str(args[other].other))

\* C14 as stated: both collections are in the folder's final list
C14_AsStated ==
    BothAdded =>
        {args[1].other, args[2].other} \subseteq Range(remote.collections[args[1].folderID])

\* both calls read the empty list before either update was applied: the list
\* ends up with the second call's collection only
C14_Witness ==
    /\ BothAdded
    /\ args[1].other = "1"
    /\ args[2].other = "2"
    /\ [i \in 1..Len(remote.log) |-> remote.log[i].caller] = <<1, 2, 1, 2>>
    /\ [i \in 1..Len(remote.log) |-> remote.log[i].method] = <<"GET", "GET", "PUT", "PUT">>
    /\ Fetched(Response(1, 1).value) = <<>>
    /\ remote.collections[args[1].folderID] = <<"2">>


====
